---- MODULE Spec2Model ----
(***************************************************************************)
(* FNV-1a hashes of 32, 64, 128, 256, 512 and 1024 bits (fnv1a.go).        *)
(*                                                                         *)
(* TLC integers are 32 bits wide, so every Go unsigned integer is kept as  *)
(* the sequence of its bytes, least significant byte first: a uint32 is a  *)
(* sequence of 4 bytes, a uint64 a sequence of 8 bytes.  The Go operators  *)
(* on these types (product, sum, shifts, and, xor, byte conversion) are    *)
(* computed on the bytes and wrap to the operand width, as Go's unsigned   *)
(* arithmetic does.                                                        *)
(* Arrays ([4]uint64, [16]byte) are functions on 0..N-1, so that every     *)
(* index is the index of the source.                                       *)
(***************************************************************************)
EXTENDS Integers, Sequences, FiniteSets, TLC

VARIABLES fn, inputdata, n, val, tmp, hash, pc, wrapped

vars == <<fn, inputdata, n, val, tmp, hash, pc, wrapped>>

(***************************************************************************)
(* Bounds of the model.                                                    *)
(***************************************************************************)
MaxLen == 3

(***************************************************************************)
(* Exact arithmetic on little-endian byte sequences.                       *)
(***************************************************************************)
Zeros(k) == [i \in 1..k |-> 0]

Pad(x, k) == [i \in 1..k |-> IF i <= Len(x) THEN x[i] ELSE 0]

Pow2(r) == CASE r = 0 -> 1 [] r = 1 -> 2 [] r = 2 -> 4 [] r = 3 -> 8
             [] r = 4 -> 16 [] r = 5 -> 32 [] r = 6 -> 64 [] r = 7 -> 128
             [] r = 8 -> 256

HighZero(x, k) == \A i \in (k + 1)..Len(x) : x[i] = 0

RECURSIVE MulRange(_, _, _, _, _)
\* bytes lo..hi of x * c + carry for a digit c < 256, followed by the carry
\* out of byte hi (the range is halved to keep the evaluation shallow)
MulRange(x, c, lo, hi, carry) ==
    IF lo > hi THEN <<carry>>
    ELSE IF lo = hi
    THEN LET t == (x[lo] * c) + carry IN <<t % 256, t \div 256>>
    ELSE LET mid   == (lo + hi) \div 2
             left  == MulRange(x, c, lo, mid, carry)
             right == MulRange(x, c, mid + 1, hi, left[Len(left)])
         IN  SubSeq(left, 1, Len(left) - 1) \o right

\* the exact product by a digit: Len(x) + 1 bytes
MulDigit(x, c) == MulRange(x, c, 1, Len(x), 0)

RECURSIVE AddRange(_, _, _, _, _)
\* bytes lo..hi of x + y + carry, followed by the carry out of byte hi
AddRange(x, y, lo, hi, carry) ==
    IF lo > hi THEN <<carry>>
    ELSE IF lo = hi
    THEN LET t == x[lo] + y[lo] + carry IN <<t % 256, t \div 256>>
    ELSE LET mid   == (lo + hi) \div 2
             left  == AddRange(x, y, lo, mid, carry)
             right == AddRange(x, y, mid + 1, hi, left[Len(left)])
         IN  SubSeq(left, 1, Len(left) - 1) \o right

\* the exact sum of two numbers of the same length: Len(x) + 1 bytes
ExactAdd(x, y) == AddRange(x, y, 1, Len(x), 0)

RECURSIVE MulRows(_, _, _, _)
\* acc + x * (the digits of y at the positions js), schoolbook multiplication
MulRows(x, y, js, acc) ==
    IF js = {} THEN acc
    ELSE LET j   == CHOOSE k \in js : \A l \in js : k <= l
             row == Pad(Zeros(j - 1) \o MulDigit(x, y[j]), Len(acc))
         IN  MulRows(x, y, js \ {j}, SubSeq(ExactAdd(acc, row), 1, Len(acc)))

\* the exact product: Len(x) + Len(y) bytes
ExactMul(x, y) ==
    MulRows(x, y, {j \in 1..Len(y) : y[j] # 0}, Zeros(Len(x) + Len(y)))

\* the exact value of x * 2^s: Len(x) + s \div 8 + 1 bytes
ExactShl(x, s) == Zeros(s \div 8) \o MulDigit(x, Pow2(s % 8))

RECURSIVE BitOp(_, _, _, _)
\* bitwise operation on two bytes, k bits: op is "xor" or "and"
BitOp(op, a, b, k) ==
    IF k = 0 THEN 0
    ELSE LET bit == IF op = "xor" THEN ((a % 2) + (b % 2)) % 2 ELSE (a % 2) * (b % 2)
         IN  bit + 2 * BitOp(op, a \div 2, b \div 2, k - 1)

(***************************************************************************)
(* Go's operators on an unsigned integer type of Len(x) bytes.             *)
(***************************************************************************)
\* x * y, wrapping to the operand width
GoMul(x, y) == SubSeq(ExactMul(x, y), 1, Len(x))
MulOverflows(x, y) == ~HighZero(ExactMul(x, y), Len(x))

\* x + y, wrapping to the operand width
GoAdd(x, y) == SubSeq(ExactAdd(x, y), 1, Len(x))
AddOverflows(x, y) == ~HighZero(ExactAdd(x, y), Len(x))

\* x << s, the bits shifted out of the operand width are lost
GoShl(x, s) == SubSeq(ExactShl(x, s), 1, Len(x))
ShlOverflows(x, s) == ~HighZero(ExactShl(x, s), Len(x))

\* x >> s
GoShr(x, s) ==
    LET q == s \div 8
        r == s % 8
        at(i) == IF i <= Len(x) THEN x[i] ELSE 0
    IN  [i \in 1..Len(x) |->
            (at(i + q) \div Pow2(r)) + ((at(i + q + 1) % Pow2(r)) * Pow2(8 - r))]

\* x & y
GoAnd(x, y) == [i \in 1..Len(x) |-> BitOp("and", x[i], y[i], 8)]

\* x | y written for x ^ y
GoXor_Or(x, y) ==
    [i \in 1..Len(x) |-> x[i] + y[i] - BitOp("and", x[i], y[i], 8)]

\* x ^ y
GoXor(x, y) == [i \in 1..Len(x) |-> BitOp("xor", x[i], y[i], 8)]

\* byte(x): the conversion keeps the low 8 bits
GoByte(x) == x[1]

\* uint32(v), uint64(v): the conversion of a byte zero-extends
GoUint(v, k) == Pad(<<v>>, k)

\* an untyped constant c < 2^31 converted to an unsigned type of k bytes
RECURSIVE IntBytes(_, _)
IntBytes(c, k) == IF k = 0 THEN <<>> ELSE <<c % 256>> \o IntBytes(c \div 256, k - 1)

\* a literal written as 16-bit groups, most significant group first
HexGroups(g) ==
    [i \in 1..(2 * Len(g)) |->
        LET group == g[Len(g) - ((i - 1) \div 2)]
        IN  IF i % 2 = 1 THEN group % 256 ELSE group \div 256]

\* a literal of an unsigned type of k bytes
Lit(k, g) == Pad(HexGroups(g), k)

\* an array literal, indexed from 0
Array(s) == [i \in 0..(Len(s) - 1) |-> s[i + 1]]

\* F(v) with v evaluated before F is applied: TLC evaluates the arguments of
\* an operator and the function constructors lazily, and a long chain of
\* unevaluated steps is evaluated too deeply
Strict(F(_), v) == IF v = v THEN F(v) ELSE F(v)

(***************************************************************************)
(* The callers' inputs: the two strings of main, and every sequence of at  *)
(* most MaxLen octets drawn from Octets.                                   *)
(***************************************************************************)
data1 == <<104, 101, 108, 108, 111, 32, 119, 111, 114, 108,
           100, 33, 103, 111, 111, 100, 98, 121, 101, 33>>

data2 == <<73, 32, 97, 109, 32, 97, 32, 103, 111, 112, 104, 101, 114, 33>>

Octets == {0, 1, 255}

BoundedInputs == UNION {[1..k -> Octets] : k \in 0..MaxLen}

Inputs == {data1, data2} \cup BoundedInputs

Functions == {"FNV1a_32", "FNV1a_64", "FNV1a_128", "FNV1a_256", "FNV1a_512", "FNV1a_1024"}

Wide == {"FNV1a_128", "FNV1a_256", "FNV1a_512", "FNV1a_1024"}

(***************************************************************************)
(* FNV1a_32                                                                *)
(***************************************************************************)
\* var val uint32 = 2166136261 (0x811C9DC5)
OffsetBasis_32 == Lit(4, <<\h811C, \h9DC5>>)

Prime_32 == IntBytes(16777619, 4)

\* the multiplication before the xor (the order of FNV-1)
Body_32_MultiplyFirst(v, octet) == GoXor(GoMul(v, Prime_32), GoUint(octet, 4))

\* val ^= uint32(v); val *= 16777619
Body_32(v, octet) == GoMul(GoXor(v, GoUint(octet, 4)), Prime_32)

\* the most significant byte written first
LittleEndian_32_BigEndian(v) == [i \in 0..3 |-> GoByte(GoShr(v, (3 - i) * 8))]

\* for ; i < 4; i++ { hash[i] = byte(val >> (i * 8)) }
LittleEndian_32(v) == [i \in 0..3 |-> GoByte(GoShr(v, i * 8))]

(***************************************************************************)
(* FNV1a_64                                                                *)
(***************************************************************************)
\* var val uint64 = 14695981039346656037 (0xCBF29CE484222325)
OffsetBasis_64 == Lit(8, <<\hCBF2, \h9CE4, \h8422, \h2325>>)

\* 1099511628211 (0x100000001B3)
Prime_64 == Lit(8, <<\h0100, \h0000, \h01B3>>)

\* val ^= uint64(v); val *= 1099511628211
Body_64(v, octet) == GoMul(GoXor(v, GoUint(octet, 8)), Prime_64)

\* for ; i < 8; i++ { hash[i] = byte(val >> (i * 8)) }
LittleEndian_64(v) == [i \in 0..7 |-> GoByte(GoShr(v, i * 8))]

(***************************************************************************)
(* Shared by the four wide functions, which repeat the same statements.    *)
(***************************************************************************)
\* 0xfffffffff, one digit too many
Mask32_NineDigits == Lit(8, <<\h000F, \hFFFF, \hFFFF>>)

\* 0xffffffff
Mask32 == Lit(8, <<\hFFFF, \hFFFF>>)

\* val[0] ^= uint64(v)
Xored(v, octet) == [v EXCEPT ![0] = GoXor(@, GoUint(octet, 8))]

\* the bytes of each limb written most significant first
LittleEndian_HighByteFirst(v, size) ==
    [k \in 0..(size - 1) |->
        LET i == k - (k % 4)
        IN  GoByte(GoShr(v[i \div 4], 8 * (3 - (k - i))))]

\* hash[i] = byte(val[i>>2]), hash[i+1] = byte(val[i>>2] >> 8),
\* hash[i+2] = byte(val[i>>2] >> 16), hash[i+3] = byte(val[i>>2] >> 24)
\* for i = 0, 4, 8, ... below size
LittleEndian(v, size) ==
    [k \in 0..(size - 1) |->
        LET i == k - (k % 4)
        IN  GoByte(GoShr(v[i \div 4], 8 * (k - i)))]

\* whether val[i]*LOW wraps in 64 bits
ProductWraps(a, low) == MulOverflows(a, low)

\* whether val[i]*LOW + val[j]<<SHIFT wraps or loses bits in 64 bits
CrossWraps(a, low, b, shift) ==
    \/ MulOverflows(a, low)
    \/ ShlOverflows(b, shift)
    \/ AddOverflows(GoMul(a, low), GoShl(b, shift))

RECURSIVE PropagateCarries(_, _, _)
\* for i := from; i < size; i++ { tmp[i] += (tmp[i-1] >> 32) }
\* (the iterations run in the order of the loop; the range is halved only to
\* keep the evaluation shallow)
PropagateCarries(t, from, size) ==
    IF from >= size THEN t
    ELSE IF from + 1 = size
    THEN [t EXCEPT ![from] = GoAdd(@, GoShr(t[from - 1], 32))]
    ELSE LET mid == (from + size) \div 2
         IN  PropagateCarries(PropagateCarries(t, from, mid), mid, size)

RECURSIVE CarryWraps(_, _, _)
\* the indexes i for which tmp[i] += (tmp[i-1] >> 32) wraps in 64 bits
CarryWraps(t, from, size) ==
    IF from >= size THEN {}
    ELSE IF from + 1 = size
    THEN IF AddOverflows(t[from], GoShr(t[from - 1], 32)) THEN {from} ELSE {}
    ELSE LET mid == (from + size) \div 2
         IN  CarryWraps(t, from, mid)
                 \cup CarryWraps(PropagateCarries(t, from, mid), mid, size)

\* var tmp [size]uint64
ZeroArray(size) == [i \in 0..(size - 1) |-> Zeros(8)]

\* var hash [size]byte
ZeroHash(size) == [i \in 0..(size - 1) |-> 0]

(***************************************************************************)
(* FNV1a_128                                                               *)
(***************************************************************************)
OffsetBasis_128 ==
    Array(<<Lit(8, <<\h6295, \hC58D>>), Lit(8, <<\h62B8, \h2175>>),
            Lit(8, <<\h07BB, \h0142>>), Lit(8, <<\h6C62, \h272E>>)>>)

FNV_128_PRIME_LOW == \h013B

FNV_128_PRIME_SHIFT == 24

\* tmp[0] = val[0] * LOW;  tmp[1] = val[1] * LOW
\* tmp[2] = val[2]*LOW + val[0]<<SHIFT;  tmp[3] = val[3]*LOW + val[1]<<SHIFT
Products_128(v) ==
    LET low == IntBytes(FNV_128_PRIME_LOW, 8)
    IN  [i \in 0..3 |->
            CASE i = 0 -> GoMul(v[0], low)
              [] i = 1 -> GoMul(v[1], low)
              [] i = 2 -> GoAdd(GoMul(v[2], low), GoShl(v[0], FNV_128_PRIME_SHIFT))
              [] i = 3 -> GoAdd(GoMul(v[3], low), GoShl(v[1], FNV_128_PRIME_SHIFT))]

ProductWraps_128(v) ==
    LET low == IntBytes(FNV_128_PRIME_LOW, 8)
    IN  {i \in 0..3 :
            CASE i = 0 -> ProductWraps(v[0], low)
              [] i = 1 -> ProductWraps(v[1], low)
              [] i = 2 -> CrossWraps(v[2], low, v[0], FNV_128_PRIME_SHIFT)
              [] i = 3 -> CrossWraps(v[3], low, v[1], FNV_128_PRIME_SHIFT)}

\* the carry into tmp[3] forgotten
Carried_128_NoLastCarry(t) ==
    LET t1 == [t  EXCEPT ![1] = GoAdd(@, GoShr(t[0], 32))]
        t2 == [t1 EXCEPT ![2] = GoAdd(@, GoShr(t1[1], 32))]
    IN  t2

\* tmp[1] += (tmp[0] >> 32); tmp[2] += (tmp[1] >> 32); tmp[3] += (tmp[2] >> 32)
Carried_128(t) ==
    LET t1 == [t  EXCEPT ![1] = GoAdd(@, GoShr(t[0], 32))]
        t2 == [t1 EXCEPT ![2] = GoAdd(@, GoShr(t1[1], 32))]
        t3 == [t2 EXCEPT ![3] = GoAdd(@, GoShr(t2[2], 32))]
    IN  t3

\* val[3] masked as the other limbs are
Truncated_128_TopMasked(t) == [i \in 0..3 |-> GoAnd(t[i], Mask32)]

\* val[2] left unmasked as val[3] is
Truncated_128_TwoUnmasked(t) ==
    [i \in 0..3 |-> IF i < 2 THEN GoAnd(t[i], Mask32) ELSE t[i]]

\* val[0..2] = tmp[0..2] & 0xffffffff;  val[3] = tmp[3]
Truncated_128(t) ==
    [i \in 0..3 |->
        CASE i = 0 -> GoAnd(t[0], Mask32)
          [] i = 1 -> GoAnd(t[1], Mask32)
          [] i = 2 -> GoAnd(t[2], Mask32)
          [] i = 3 -> t[3]]

LittleEndian_128(v) == LittleEndian(v, 16)

(***************************************************************************)
(* FNV1a_256                                                               *)
(***************************************************************************)
OffsetBasis_256 ==
    Array(<<Lit(8, <<\hCAEE, \h0535>>), Lit(8, <<\h1023, \hB4C8>>),
            Lit(8, <<\h47B6, \hBBB3>>), Lit(8, <<\hC8B1, \h5368>>),
            Lit(8, <<\hC4E5, \h76CC>>), Lit(8, <<\h2D98, \hC384>>),
            Lit(8, <<\hAAC5, \h5036>>), Lit(8, <<\hDD26, \h8DBC>>)>>)

FNV_256_PRIME_LOW == \h0163

FNV_256_PRIME_SHIFT == 8

\* the second loop started at 6: tmp[5] without its cross term
Products_256_From6(v) ==
    LET low == IntBytes(FNV_256_PRIME_LOW, 8)
    IN  [i \in 0..7 |->
            IF i < 6 THEN GoMul(v[i], low)
            ELSE GoAdd(GoMul(v[i], low), GoShl(v[i - 5], FNV_256_PRIME_SHIFT))]

\* for i < 5: tmp[i] = val[i] * LOW;  for 5 <= i < 8: tmp[i] = val[i]*LOW + val[i-5]<<SHIFT
Products_256(v) ==
    LET low == IntBytes(FNV_256_PRIME_LOW, 8)
    IN  [i \in 0..7 |->
            IF i < 5 THEN GoMul(v[i], low)
            ELSE GoAdd(GoMul(v[i], low), GoShl(v[i - 5], FNV_256_PRIME_SHIFT))]

ProductWraps_256(v) ==
    LET low == IntBytes(FNV_256_PRIME_LOW, 8)
    IN  {i \in 0..7 :
            IF i < 5 THEN ProductWraps(v[i], low)
            ELSE CrossWraps(v[i], low, v[i - 5], FNV_256_PRIME_SHIFT)}

\* for i := 1; i < 8; i++ { tmp[i] += (tmp[i-1] >> 32) }
Carried_256(t) == PropagateCarries(t, 1, 8)

\* the masks forgotten
Truncated_256_Unmasked(t) == [i \in 0..7 |-> t[i]]

\* for i := 0; i < 8; i++ { val[i] = tmp[i] & 0xffffffff }
Truncated_256(t) == [i \in 0..7 |-> GoAnd(t[i], Mask32)]

LittleEndian_256(v) == LittleEndian(v, 32)

(***************************************************************************)
(* FNV1a_512                                                               *)
(***************************************************************************)
OffsetBasis_512 ==
    Array(<<Lit(8, <<\h4AFE, \h9FD9>>), Lit(8, <<\hAC98, \h2AAC>>),
            Lit(8, <<\h5F56, \hE34B>>), Lit(8, <<\h1820, \h3641>>),
            Lit(8, <<\h42DB, \hE7CE>>), Lit(8, <<\h2EA7, \h9BC9>>),
            Lit(8, <<\h34C1, \h92F6>>), Lit(8, <<\hE948, \hF68A>>),
            Lit(8, <<\h0000, \h0D21>>), Lit(8, <<\h0000, \h0000>>),
            Lit(8, <<\hC900, \h0000>>), Lit(8, <<\hAC87, \hD059>>),
            Lit(8, <<\h3099, \h90AC>>), Lit(8, <<\hDCA1, \hE50F>>),
            Lit(8, <<\h171F, \h4416>>), Lit(8, <<\hB86D, \hB0B1>>)>>)

FNV_512_PRIME_LOW == \h0157

FNV_512_PRIME_SHIFT == 24

\* for i < 10: tmp[i] = val[i] * LOW;  for 10 <= i < 16: tmp[i] = val[i]*LOW + val[i-10]<<SHIFT
Products_512(v) ==
    LET low == IntBytes(FNV_512_PRIME_LOW, 8)
    IN  [i \in 0..15 |->
            IF i < 10 THEN GoMul(v[i], low)
            ELSE GoAdd(GoMul(v[i], low), GoShl(v[i - 10], FNV_512_PRIME_SHIFT))]

ProductWraps_512(v) ==
    LET low == IntBytes(FNV_512_PRIME_LOW, 8)
    IN  {i \in 0..15 :
            IF i < 10 THEN ProductWraps(v[i], low)
            ELSE CrossWraps(v[i], low, v[i - 10], FNV_512_PRIME_SHIFT)}

\* for i := 1; i < 16; i++ { tmp[i] += (tmp[i-1] >> 32) }
Carried_512(t) == PropagateCarries(t, 1, 16)

\* for i := 0; i < 16; i++ { val[i] = tmp[i] & 0xffffffff }
Truncated_512(t) == [i \in 0..15 |-> GoAnd(t[i], Mask32)]

LittleEndian_512(v) == LittleEndian(v, 64)

(***************************************************************************)
(* FNV1a_1024                                                              *)
(***************************************************************************)
OffsetBasis_1024 ==
    Array(<<Lit(8, <<\h71EE, \h90B3>>), Lit(8, <<\hAFF4, \hB16C>>),
            Lit(8, <<\hC6A9, \h3B21>>), Lit(8, <<\h6BDE, \h8CC9>>),
            Lit(8, <<\hC005, \hAE55>>), Lit(8, <<\h555F, \h256C>>),
            Lit(8, <<\h2734, \h510A>>), Lit(8, <<\hEB6E, \h7380>>),
            Lit(8, <<\h0004, \hC6D7>>), Lit(8, <<\h0000, \h0000>>),
            Lit(8, <<\h0000, \h0000>>), Lit(8, <<\h0000, \h0000>>),
            Lit(8, <<\h0000, \h0000>>), Lit(8, <<\h0000, \h0000>>),
            Lit(8, <<\h0000, \h0000>>), Lit(8, <<\h0000, \h0000>>),
            Lit(8, <<\h0000, \h0000>>), Lit(8, <<\h0000, \h0000>>),
            Lit(8, <<\h0000, \h0000>>), Lit(8, <<\h0000, \h0000>>),
            Lit(8, <<\h0000, \h0000>>), Lit(8, <<\h9A21, \hD900>>),
            Lit(8, <<\hDA36, \h74DA>>), Lit(8, <<\h6C3B, \hF34E>>),
            Lit(8, <<\h23FD, \hADA1>>), Lit(8, <<\h4B29, \hFC42>>),
            Lit(8, <<\h5910, \h28B7>>), Lit(8, <<\h32E5, \h6D5A>>),
            Lit(8, <<\h758E, \hCC4D>>), Lit(8, <<\h005F, \h7A76>>),
            Lit(8, <<\h0000, \h0000>>), Lit(8, <<\h0000, \h0000>>)>>)

FNV_1024_PRIME_LOW == \h018D

FNV_1024_PRIME_SHIFT == 8

\* for i < 21: tmp[i] = val[i] * LOW;  for 21 <= i < 32: tmp[i] = val[i]*LOW + val[i-21]<<SHIFT
Products_1024(v) ==
    LET low == IntBytes(FNV_1024_PRIME_LOW, 8)
    IN  [i \in 0..31 |->
            IF i < 21 THEN GoMul(v[i], low)
            ELSE GoAdd(GoMul(v[i], low), GoShl(v[i - 21], FNV_1024_PRIME_SHIFT))]

ProductWraps_1024(v) ==
    LET low == IntBytes(FNV_1024_PRIME_LOW, 8)
    IN  {i \in 0..31 :
            IF i < 21 THEN ProductWraps(v[i], low)
            ELSE CrossWraps(v[i], low, v[i - 21], FNV_1024_PRIME_SHIFT)}

\* for i := 1; i < 32; i++ { tmp[i] += (tmp[i-1] >> 32) }
Carried_1024(t) == PropagateCarries(t, 1, 32)

\* for i := 0; i < 32; i++ { val[i] = tmp[i] & 0xffffffff }
Truncated_1024(t) == [i \in 0..31 |-> GoAnd(t[i], Mask32)]

LittleEndian_1024(v) == LittleEndian(v, 128)

(***************************************************************************)
(* The state machine: one call of one of the six functions on one input.   *)
(*   pc         the position in the function: "range" is the head of the   *)
(*              loop over the octets, "multiply", "carry" and "truncate"   *)
(*              the statements of the loop body that follow the xor,       *)
(*              "done" the return                                          *)
(*   n          the number of octets the range loop has taken              *)
(*   wrapped    the indexes i for which a computation of tmp[i] wrapped in *)
(*              64 bits so far (Go wraps silently; the set records it)     *)
(***************************************************************************)
Size(f) ==
    CASE f = "FNV1a_32" -> 4 [] f = "FNV1a_64" -> 8 [] f = "FNV1a_128" -> 16
      [] f = "FNV1a_256" -> 32 [] f = "FNV1a_512" -> 64 [] f = "FNV1a_1024" -> 128

Limbs(f) == Size(f) \div 4

OffsetBasis(f) ==
    CASE f = "FNV1a_32" -> OffsetBasis_32 [] f = "FNV1a_64" -> OffsetBasis_64
      [] f = "FNV1a_128" -> OffsetBasis_128 [] f = "FNV1a_256" -> OffsetBasis_256
      [] f = "FNV1a_512" -> OffsetBasis_512 [] f = "FNV1a_1024" -> OffsetBasis_1024

Init ==
    /\ fn \in Functions
    /\ inputdata \in Inputs
    /\ n = 0
    /\ val = OffsetBasis(fn)
    /\ tmp = IF fn \in Wide THEN ZeroArray(Limbs(fn)) ELSE <<>>
    /\ hash = ZeroHash(Size(fn))
    /\ pc = "range"
    /\ wrapped = {}

NextOctet(f) == fn = f /\ pc = "range" /\ n < Len(inputdata)

EndOfInput(f) == fn = f /\ pc = "range" /\ n = Len(inputdata)

At(f, p) == fn = f /\ pc = p

(* FNV1a_32: the loop over the octets, then the little-endian write. *)
Loop_32 ==
    /\ NextOctet("FNV1a_32")
    /\ val' = Body_32(val, inputdata[n + 1])
    /\ n' = n + 1
    /\ UNCHANGED <<fn, inputdata, tmp, hash, pc, wrapped>>

Write_32 ==
    /\ EndOfInput("FNV1a_32")
    /\ hash' = LittleEndian_32(val)
    /\ pc' = "done"
    /\ UNCHANGED <<fn, inputdata, n, val, tmp, wrapped>>

(* FNV1a_64: the loop over the octets, then the little-endian write. *)
Loop_64 ==
    /\ NextOctet("FNV1a_64")
    /\ val' = Body_64(val, inputdata[n + 1])
    /\ n' = n + 1
    /\ UNCHANGED <<fn, inputdata, tmp, hash, pc, wrapped>>

Write_64 ==
    /\ EndOfInput("FNV1a_64")
    /\ hash' = LittleEndian_64(val)
    /\ pc' = "done"
    /\ UNCHANGED <<fn, inputdata, n, val, tmp, wrapped>>

(* FNV1a_128: the loop over the octets, then the little-endian write. *)
Xor_128 ==
    /\ NextOctet("FNV1a_128")
    /\ val' = Xored(val, inputdata[n + 1])
    /\ n' = n + 1
    /\ pc' = "multiply"
    /\ UNCHANGED <<fn, inputdata, tmp, hash, wrapped>>

Multiply_128 ==
    /\ At("FNV1a_128", "multiply")
    /\ tmp' = Products_128(val)
    /\ wrapped' = wrapped \cup ProductWraps_128(val)
    /\ pc' = "carry"
    /\ UNCHANGED <<fn, inputdata, n, val, hash>>

Propagate_128 ==
    /\ At("FNV1a_128", "carry")
    /\ tmp' = Carried_128(tmp)
    /\ wrapped' = wrapped \cup CarryWraps(tmp, 1, 4)
    /\ pc' = "truncate"
    /\ UNCHANGED <<fn, inputdata, n, val, hash>>

Truncate_128 ==
    /\ At("FNV1a_128", "truncate")
    /\ val' = Truncated_128(tmp)
    /\ pc' = "range"
    /\ UNCHANGED <<fn, inputdata, n, tmp, hash, wrapped>>

Write_128 ==
    /\ EndOfInput("FNV1a_128")
    /\ hash' = LittleEndian_128(val)
    /\ pc' = "done"
    /\ UNCHANGED <<fn, inputdata, n, val, tmp, wrapped>>

(* FNV1a_256: the loop over the octets, then the little-endian write. *)
Xor_256 ==
    /\ NextOctet("FNV1a_256")
    /\ val' = Xored(val, inputdata[n + 1])
    /\ n' = n + 1
    /\ pc' = "multiply"
    /\ UNCHANGED <<fn, inputdata, tmp, hash, wrapped>>

Multiply_256 ==
    /\ At("FNV1a_256", "multiply")
    /\ tmp' = Products_256(val)
    /\ wrapped' = wrapped \cup ProductWraps_256(val)
    /\ pc' = "carry"
    /\ UNCHANGED <<fn, inputdata, n, val, hash>>

Propagate_256 ==
    /\ At("FNV1a_256", "carry")
    /\ tmp' = Carried_256(tmp)
    /\ wrapped' = wrapped \cup CarryWraps(tmp, 1, 8)
    /\ pc' = "truncate"
    /\ UNCHANGED <<fn, inputdata, n, val, hash>>

Truncate_256 ==
    /\ At("FNV1a_256", "truncate")
    /\ val' = Truncated_256(tmp)
    /\ pc' = "range"
    /\ UNCHANGED <<fn, inputdata, n, tmp, hash, wrapped>>

Write_256 ==
    /\ EndOfInput("FNV1a_256")
    /\ hash' = LittleEndian_256(val)
    /\ pc' = "done"
    /\ UNCHANGED <<fn, inputdata, n, val, tmp, wrapped>>

(* FNV1a_512: the loop over the octets, then the little-endian write. *)
Xor_512 ==
    /\ NextOctet("FNV1a_512")
    /\ val' = Xored(val, inputdata[n + 1])
    /\ n' = n + 1
    /\ pc' = "multiply"
    /\ UNCHANGED <<fn, inputdata, tmp, hash, wrapped>>

Multiply_512 ==
    /\ At("FNV1a_512", "multiply")
    /\ tmp' = Products_512(val)
    /\ wrapped' = wrapped \cup ProductWraps_512(val)
    /\ pc' = "carry"
    /\ UNCHANGED <<fn, inputdata, n, val, hash>>

Propagate_512 ==
    /\ At("FNV1a_512", "carry")
    /\ tmp' = Carried_512(tmp)
    /\ wrapped' = wrapped \cup CarryWraps(tmp, 1, 16)
    /\ pc' = "truncate"
    /\ UNCHANGED <<fn, inputdata, n, val, hash>>

Truncate_512 ==
    /\ At("FNV1a_512", "truncate")
    /\ val' = Truncated_512(tmp)
    /\ pc' = "range"
    /\ UNCHANGED <<fn, inputdata, n, tmp, hash, wrapped>>

Write_512 ==
    /\ EndOfInput("FNV1a_512")
    /\ hash' = LittleEndian_512(val)
    /\ pc' = "done"
    /\ UNCHANGED <<fn, inputdata, n, val, tmp, wrapped>>

(* FNV1a_1024: the loop over the octets, then the little-endian write. *)
Xor_1024 ==
    /\ NextOctet("FNV1a_1024")
    /\ val' = Xored(val, inputdata[n + 1])
    /\ n' = n + 1
    /\ pc' = "multiply"
    /\ UNCHANGED <<fn, inputdata, tmp, hash, wrapped>>

Multiply_1024 ==
    /\ At("FNV1a_1024", "multiply")
    /\ tmp' = Products_1024(val)
    /\ wrapped' = wrapped \cup ProductWraps_1024(val)
    /\ pc' = "carry"
    /\ UNCHANGED <<fn, inputdata, n, val, hash>>

Propagate_1024 ==
    /\ At("FNV1a_1024", "carry")
    /\ tmp' = Carried_1024(tmp)
    /\ wrapped' = wrapped \cup CarryWraps(tmp, 1, 32)
    /\ pc' = "truncate"
    /\ UNCHANGED <<fn, inputdata, n, val, hash>>

Truncate_1024 ==
    /\ At("FNV1a_1024", "truncate")
    /\ val' = Truncated_1024(tmp)
    /\ pc' = "range"
    /\ UNCHANGED <<fn, inputdata, n, tmp, hash, wrapped>>

Write_1024 ==
    /\ EndOfInput("FNV1a_1024")
    /\ hash' = LittleEndian_1024(val)
    /\ pc' = "done"
    /\ UNCHANGED <<fn, inputdata, n, val, tmp, wrapped>>

Next ==
    \/ Loop_32 \/ Write_32
    \/ Loop_64 \/ Write_64
    \/ Xor_128 \/ Multiply_128 \/ Propagate_128 \/ Truncate_128 \/ Write_128
    \/ Xor_256 \/ Multiply_256 \/ Propagate_256 \/ Truncate_256 \/ Write_256
    \/ Xor_512 \/ Multiply_512 \/ Propagate_512 \/ Truncate_512 \/ Write_512
    \/ Xor_1024 \/ Multiply_1024 \/ Propagate_1024 \/ Truncate_1024 \/ Write_1024

Spec == Init /\ [][Next]_vars

(***************************************************************************)
(* The reference of the header comment, in exact arithmetic on the whole   *)
(* W-bit number (W/8 bytes, least significant first):                      *)
(*   hash = offset_basis; for each octet: hash = (hash xor octet) * prime  *)
(***************************************************************************)
\* the offset bases as the comments print them, most significant digits first
RefOffsetBasis(f) ==
    CASE f = "FNV1a_128" ->
           HexGroups(<<\h6C62, \h272E, \h07BB, \h0142, \h62B8, \h2175, \h6295, \hC58D>>)
      [] f = "FNV1a_256" ->
           HexGroups(<<\hDD26, \h8DBC, \hAAC5, \h5036, \h2D98, \hC384, \hC4E5, \h76CC,
                       \hC8B1, \h5368, \h47B6, \hBBB3, \h1023, \hB4C8, \hCAEE, \h0535>>)
      [] f = "FNV1a_512" ->
           HexGroups(<<\hB86D, \hB0B1, \h171F, \h4416, \hDCA1, \hE50F, \h3099, \h90AC,
                       \hAC87, \hD059, \hC900, \h0000, \h0000, \h0000, \h0000, \h0D21,
                       \hE948, \hF68A, \h34C1, \h92F6, \h2EA7, \h9BC9, \h42DB, \hE7CE,
                       \h1820, \h3641, \h5F56, \hE34B, \hAC98, \h2AAC, \h4AFE, \h9FD9>>)
      [] f = "FNV1a_1024" ->
           HexGroups(<<\h0000, \h0000, \h0000, \h0000, \h005F, \h7A76, \h758E, \hCC4D,
                       \h32E5, \h6D5A, \h5910, \h28B7, \h4B29, \hFC42, \h23FD, \hADA1,
                       \h6C3B, \hF34E, \hDA36, \h74DA, \h9A21, \hD900, \h0000, \h0000,
                       \h0000, \h0000, \h0000, \h0000, \h0000, \h0000, \h0000, \h0000,
                       \h0000, \h0000, \h0000, \h0000, \h0000, \h0000, \h0000, \h0000,
                       \h0000, \h0000, \h0000, \h0000, \h0000, \h0000, \h0004, \hC6D7,
                       \hEB6E, \h7380, \h2734, \h510A, \h555F, \h256C, \hC005, \hAE55,
                       \h6BDE, \h8CC9, \hC6A9, \h3B21, \hAFF4, \hB16C, \h71EE, \h90B3>>)

\* the primes are 2^88 + 0x13B, 2^168 + 0x163, 2^344 + 0x157, 2^680 + 0x18D
PrimeExponent(f) ==
    CASE f = "FNV1a_128" -> 88 [] f = "FNV1a_256" -> 168
      [] f = "FNV1a_512" -> 344 [] f = "FNV1a_1024" -> 680

PrimeLow(f) ==
    CASE f = "FNV1a_128" -> \h013B [] f = "FNV1a_256" -> \h0163
      [] f = "FNV1a_512" -> \h0157 [] f = "FNV1a_1024" -> \h018D

RefPrime(f) ==
    [i \in 1..Size(f) |->
        CASE i = 1 -> PrimeLow(f) % 256
          [] i = 2 -> PrimeLow(f) \div 256
          [] i = (PrimeExponent(f) \div 8) + 1 -> 1
          [] OTHER -> 0]

RefStep(f, h, octet) ==
    SubSeq(ExactMul([h EXCEPT ![1] = BitOp("xor", h[1], octet, 8)], RefPrime(f)),
           1, Size(f))

RECURSIVE RefHash(_, _, _)
\* the reference after the first k octets of data
RefHash(f, data, k) ==
    IF k = 0 THEN RefOffsetBasis(f)
    ELSE LET Step(h) == RefStep(f, h, data[k])
         IN  Strict(Step, RefHash(f, data, k - 1))

\* an array of bytes holds the bytes of the number x, least significant first
IsLittleEndianOf(h, x) == \A k \in DOMAIN h : h[k] = x[k + 1]

\* bits at or above bit 32 of a 64-bit word are set
Above32(x) == ~HighZero(x, 4)

(* C1: for each wide width and every input, the returned digest is the     *)
(* little-endian serialization of the reference value computed in exact    *)
(* arithmetic mod 2^W with the documented offset basis and prime.          *)
C1_MatchesReference ==
    (fn \in Wide /\ pc = "done")
        => IsLittleEndianOf(hash, RefHash(fn, inputdata, Len(inputdata)))

\* a run of 0xFF octets after which every limb of tmp exceeds 2^32
C1_Witness ==
    /\ fn = "FNV1a_128" /\ pc = "done"
    /\ inputdata = <<255, 255, 255>>
    /\ \A i \in 0..3 : Above32(tmp[i])
    /\ IsLittleEndianOf(hash, RefHash(fn, inputdata, Len(inputdata)))

(* C2: for every width, hashing the empty sequence returns the offset      *)
(* basis serialized little-endian (limb 0 first, low byte of each limb     *)
(* first), and no multiply step is applied.                                *)
C2_EmptyInput ==
    (pc = "done" /\ inputdata = <<>>)
        => /\ n = 0
           /\ val = OffsetBasis(fn)
           /\ fn \in Wide =>
                /\ tmp = ZeroArray(Limbs(fn))
                /\ \A k \in 0..(Size(fn) - 1) :
                       hash[k] = OffsetBasis(fn)[k \div 4][(k % 4) + 1]
                /\ IsLittleEndianOf(hash, RefOffsetBasis(fn))
           /\ fn \notin Wide => IsLittleEndianOf(hash, OffsetBasis(fn))

C2_Witness ==
    /\ pc = "done" /\ inputdata = <<>> /\ fn = "FNV1a_1024"
    /\ hash[0] = 179 /\ hash[116] = 118

(* C3: for every wide width, output byte k is byte (k mod 4) of the low    *)
(* 32 bits of limb (k div 4); bits of a limb at or above bit 32 never      *)
(* appear in the output.                                                   *)
C3_Serialization ==
    (fn \in Wide /\ pc = "done")
        => \A k \in 0..(Size(fn) - 1) : hash[k] = val[k \div 4][(k % 4) + 1]

\* the top limb of FNV1a_128 has bits above bit 32 when it is written
C3_Witness ==
    /\ fn = "FNV1a_128" /\ pc = "done"
    /\ Above32(val[3])
    /\ \A k \in 12..15 : hash[k] = val[3][k - 11]

(* C4: the six reference vectors: the digest printed as hexadecimal in     *)
(* reversed byte order is the published value.                             *)
HexChars == <<"0", "1", "2", "3", "4", "5", "6", "7",
              "8", "9", "a", "b", "c", "d", "e", "f">>

HexByte(b) == HexChars[(b \div 16) + 1] \o HexChars[(b % 16) + 1]

RECURSIVE HexReversed(_, _)
\* the bytes h[k], h[k-1], ..., h[0] in hexadecimal
HexReversed(h, k) == IF k < 0 THEN "" ELSE HexByte(h[k]) \o HexReversed(h, k - 1)

BigEndianHex == HexReversed(hash, Size(fn) - 1)

C4_ReferenceVectors ==
    pc = "done" =>
        /\ (fn = "FNV1a_32" /\ inputdata = data1) => BigEndianHex = "113baa28"
        /\ (fn = "FNV1a_64" /\ inputdata = data1) => BigEndianHex = "50015c195ee3d588"
        /\ (fn = "FNV1a_128" /\ inputdata = data1)
              => BigEndianHex = "aebb096b13b291473b18f8448a446fa0"
        /\ (fn = "FNV1a_256" /\ inputdata = data1)
              => BigEndianHex =
                   "a3846d0515e77985b8e15916d15c1ffd2ead3cf20a78e15a4ab0c023728fc0f8"
        /\ (fn = "FNV1a_32" /\ inputdata = data2) => BigEndianHex = "7b0b53e9"
        /\ (fn = "FNV1a_64" /\ inputdata = data2) => BigEndianHex = "9fb4685c5284a9a9"

C4_Witness ==
    /\ pc = "done" /\ fn = "FNV1a_256" /\ inputdata = data1
    /\ BigEndianHex = "a3846d0515e77985b8e15916d15c1ffd2ead3cf20a78e15a4ab0c023728fc0f8"

(* C5 as claimed: in every wide function, for every input and at every     *)
(* step, each intermediate value tmp[i] stays below 2^64, so the 64-bit    *)
(* arithmetic never wraps.                                                 *)
C5_NeverWraps == fn \in Wide => wrapped = {}

(* C5 as amended: the 64-bit arithmetic never wraps in FNV1a_256,          *)
(* FNV1a_512 and FNV1a_1024, nor for tmp[0], tmp[1], tmp[2] of FNV1a_128;  *)
(* only tmp[3] of FNV1a_128, computed from the unmasked val[3], can wrap.  *)
C5_WrapsOnlyTop128 ==
    fn \in Wide => wrapped \subseteq (IF fn = "FNV1a_128" THEN {3} ELSE {})

\* the third octet makes tmp[3] of FNV1a_128 wrap, and nothing else
C5_Witness ==
    /\ fn = "FNV1a_128" /\ pc = "carry" /\ n = 3
    /\ wrapped = {3}
    /\ Above32(val[3])

(* The prime descriptor of a width, from the prime 2^e + P_low:            *)
(* limb_offset = e div 32 and shift = e mod 32.                            *)
LimbOffset(f) == PrimeExponent(f) \div 32

Shift(f) == PrimeExponent(f) % 32

OnlyProduct(f, i) == tmp[i] = GoMul(val[i], IntBytes(PrimeLow(f), 8))

ProductAndCross(f, i) ==
    /\ i - LimbOffset(f) >= 0
    /\ tmp[i] = GoAdd(GoMul(val[i], IntBytes(PrimeLow(f), 8)),
                      GoShl(val[i - LimbOffset(f)], Shift(f)))

(* C6 as claimed: after the multiply step of every wide function, limbs    *)
(* 0 .. limbCount - limb_offset - 1 hold digit[i] * P_low and limbs        *)
(* limbCount - limb_offset .. limbCount - 1 hold                           *)
(* digit[i] * P_low + (digit[i - limb_offset] << shift).                   *)
C6_SplitAtCountMinusOffset ==
    (fn \in Wide /\ pc = "carry")
        => \A i \in 0..(Limbs(fn) - 1) :
               IF i <= Limbs(fn) - LimbOffset(fn) - 1
               THEN OnlyProduct(fn, i)
               ELSE ProductAndCross(fn, i)

(* C6 as amended: after the multiply step of every wide function, limbs    *)
(* 0 .. limb_offset - 1 hold digit[i] * P_low and limbs                    *)
(* limb_offset .. limbCount - 1 hold                                       *)
(* digit[i] * P_low + (digit[i - limb_offset] << shift), in 64 bits.       *)
C6_SplitAtOffset ==
    (fn \in Wide /\ pc = "carry")
        => \A i \in 0..(Limbs(fn) - 1) :
               IF i <= LimbOffset(fn) - 1
               THEN OnlyProduct(fn, i)
               ELSE ProductAndCross(fn, i)

\* FNV1a_256: limb 3 holds the product alone, limb 5 the product and a cross term
C6_Witness ==
    /\ fn = "FNV1a_256" /\ pc = "carry"
    /\ OnlyProduct(fn, 3) /\ ~ProductAndCross(fn, 3)
    /\ ProductAndCross(fn, 5) /\ ~OnlyProduct(fn, 5)

\* the state that follows the truncation of a step: tmp still holds the
\* values after the carries, val the values stored from them
AfterTruncation == pc = "range" /\ n > 0

(* C7 as claimed: in the truncation of every wide function, every limb     *)
(* but the top one is masked to 32 bits and the top limb is stored         *)
(* unmasked, with its bits at or above 2^32.                               *)
C7_TopUnmaskedEverywhere ==
    (fn \in Wide /\ AfterTruncation)
        => /\ \A i \in 0..(Limbs(fn) - 2) : val[i] = GoAnd(tmp[i], Mask32)
           /\ val[Limbs(fn) - 1] = tmp[Limbs(fn) - 1]

(* C7 as amended: in the truncation of FNV1a_128 every limb but the top    *)
(* one is masked to 32 bits and the top limb is stored unmasked; in        *)
(* FNV1a_256, FNV1a_512 and FNV1a_1024 every limb, the top one included,   *)
(* is masked to 32 bits.                                                   *)
C7_TopUnmaskedOnly128 ==
    (fn \in Wide /\ AfterTruncation)
        => /\ \A i \in 0..(Limbs(fn) - 2) : val[i] = GoAnd(tmp[i], Mask32)
           /\ val[Limbs(fn) - 1] =
                 IF fn = "FNV1a_128" THEN tmp[Limbs(fn) - 1]
                 ELSE GoAnd(tmp[Limbs(fn) - 1], Mask32)

\* FNV1a_256 has dropped bits above bit 32 of its top limb
C7_Witness ==
    /\ fn = "FNV1a_256" /\ AfterTruncation
    /\ Above32(tmp[7]) /\ ~Above32(val[7])
    /\ val[7] = GoAnd(tmp[7], Mask32)

(* C8: in every wide function, at the start and after each octet, every    *)
(* limb of val but the most significant one is below 2^32, and the xor of  *)
(* the next octet into val[0] keeps it so.                                 *)
C8_LimbsBelow2p32 ==
    fn \in Wide => \A i \in 0..(Limbs(fn) - 2) : ~Above32(val[i])

\* the xor of 0xFF into val[0] after two processed octets
C8_Witness ==
    /\ fn \in Wide /\ pc = "multiply" /\ n = 3
    /\ inputdata[3] = 255
    /\ \A i \in 0..(Limbs(fn) - 2) : ~Above32(val[i])

(* The algorithm of FNV1a_128 with val[3] masked after every octet.        *)
MaskedBody_128(v, octet) ==
    LET MaskAll(t) == [i \in 0..3 |-> GoAnd(t[i], Mask32)]
    IN  Strict(MaskAll,
               Strict(Carried_128, Strict(Products_128, Xored(v, octet))))

RECURSIVE MaskedRun_128(_, _)
MaskedRun_128(data, k) ==
    IF k = 0 THEN OffsetBasis_128
    ELSE LET Step(v) == MaskedBody_128(v, data[k])
         IN  Strict(Step, MaskedRun_128(data, k - 1))

(* C9: FNV1a_128 returns the digest of the same algorithm with val[3]      *)
(* masked after every octet: after each step the low 32 bits of every limb *)
(* agree, also when the unmasked 64-bit value has wrapped.                 *)
C9_UnmaskedTopHarmless ==
    (fn = "FNV1a_128" /\ pc \in {"range", "done"})
        => LET masked == MaskedRun_128(inputdata, n)
           IN  /\ \A i \in 0..3 : GoAnd(val[i], Mask32) = masked[i]
               /\ pc = "done" => hash = LittleEndian_128(masked)

\* a run in which tmp[3] wrapped and val[3] differs from the masked run
C9_Witness ==
    /\ fn = "FNV1a_128" /\ pc = "done"
    /\ 3 \in wrapped
    /\ val[3] # MaskedRun_128(inputdata, n)[3]
    /\ hash = LittleEndian_128(MaskedRun_128(inputdata, n))

(* The functions as operators: the digest of a function for an input.      *)
Body(f, v, octet) ==
    CASE f = "FNV1a_32" -> Body_32(v, octet)
      [] f = "FNV1a_64" -> Body_64(v, octet)
      [] f = "FNV1a_128" ->
           Strict(Truncated_128,
                  Strict(Carried_128, Strict(Products_128, Xored(v, octet))))
      [] f = "FNV1a_256" ->
           Strict(Truncated_256,
                  Strict(Carried_256, Strict(Products_256, Xored(v, octet))))
      [] f = "FNV1a_512" ->
           Strict(Truncated_512,
                  Strict(Carried_512, Strict(Products_512, Xored(v, octet))))
      [] f = "FNV1a_1024" ->
           Strict(Truncated_1024,
                  Strict(Carried_1024, Strict(Products_1024, Xored(v, octet))))

RECURSIVE Run(_, _, _)
\* val after the first k octets of data
Run(f, data, k) ==
    IF k = 0 THEN OffsetBasis(f)
    ELSE LET Step(v) == Body(f, v, data[k])
         IN  Strict(Step, Run(f, data, k - 1))

Digest(f, data) ==
    LET Return(v) ==
            CASE f = "FNV1a_32" -> LittleEndian_32(v)
              [] f = "FNV1a_64" -> LittleEndian_64(v)
              [] f = "FNV1a_128" -> LittleEndian_128(v)
              [] f = "FNV1a_256" -> LittleEndian_256(v)
              [] f = "FNV1a_512" -> LittleEndian_512(v)
              [] f = "FNV1a_1024" -> LittleEndian_1024(v)
    IN  Strict(Return, Run(f, data, Len(data)))

\* the inputs of the same length that differ from data in exactly one position
Neighbours(data) ==
    {[data EXCEPT ![p] = b] : p \in 1..Len(data), b \in Octets} \ {data}

(* C10: for every width, two inputs of equal length that differ in exactly *)
(* one position have different digests.                                    *)
C10_OneOctetChangesDigest ==
    pc = "done"
        => /\ hash = Digest(fn, inputdata)
           /\ \A d \in Neighbours(inputdata) : Digest(fn, d) # hash

\* an input whose first octet is changed, followed by identical later octets
C10_Witness ==
    /\ pc = "done" /\ Len(inputdata) = 3
    /\ \E d \in Neighbours(inputdata) :
           /\ d[1] # inputdata[1]
           /\ Digest(fn, d) # hash

====
